---------------------------- MODULE Spec2Model ----------------------------
(***************************************************************************)
(* Snap & Solve: the expression-extraction-and-evaluation pipeline.        *)
(*                                                                         *)
(* Two groups of definitions:                                              *)
(*   - the service functions (extractExpressionFromImage and               *)
(*     calculateExpression, each in its remote and its local variant) as   *)
(*     operators on strings, exercised by the specification SpecService;   *)
(*   - the App component (its five state hooks, resetState,                *)
(*     handleImageChange and the expression textarea) as a state machine,  *)
(*     exercised by the specification Spec.                                *)
(*                                                                         *)
(* Strings are TLA+ strings; a character is a string of length one.        *)
(***************************************************************************)
EXTENDS Integers, Sequences, FiniteSets

(***************************************************************************)
(* String primitives (String.prototype methods and regular-expression      *)
(* character classes used by the services).                                *)
(***************************************************************************)

CharAt(s, i) == SubSeq(s, i, i)

Digits == {"0", "1", "2", "3", "4", "5", "6", "7", "8", "9"}

\* The class [+\-*/] (equally [*\/+\-]).
Operators == {"+", "-", "*", "/"}

\* The class \s, which is also what trim(), parseFloat and Number strip and
\* what the lexical grammar skips: space, TAB, LF, CR, FF, then VT (U+000B),
\* NBSP (U+00A0), OGHAM SPACE MARK (U+1680) and ZWNBSP (U+FEFF), each written
\* as the character itself. The class also holds U+2000..U+200A, U+2028,
\* U+2029, U+202F, U+205F and U+3000: a TLA+ string cannot hold any of those
\* (the module's lexical grammar rejects them), so no string here has one.
WhiteSpace == {" ", "\t", "\n", "\r", "\f", "", " ", " ", "﻿"}

\* Line terminators among the white space (for automatic semicolon insertion
\* and regular-expression literals): LF and CR. The other two, U+2028 and
\* U+2029, are among the characters no string here can hold.
LineTerminators == {"\n", "\r"}

startsWith(s, p) == Len(s) >= Len(p) /\ SubSeq(s, 1, Len(p)) = p

HasCharIn(s, set) == \E i \in 1..Len(s) : CharAt(s, i) \in set

OnlyCharsIn(s, set) == \A i \in 1..Len(s) : CharAt(s, i) \in set

\* s.replace(/[^set]/g, '')
RECURSIVE KeepChars(_, _)
KeepChars(s, set) ==
    IF s = "" THEN ""
    ELSE (IF Head(s) \in set THEN Head(s) ELSE "") \o KeepChars(Tail(s), set)

\* s.replace(/[set]+/g, '')
RECURSIVE DropChars(_, _)
DropChars(s, set) ==
    IF s = "" THEN ""
    ELSE (IF Head(s) \in set THEN "" ELSE Head(s)) \o DropChars(Tail(s), set)

\* Length of the longest prefix of s made of characters of set.
SpanLen(s, set) ==
    CHOOSE n \in 0..Len(s) :
        /\ n = Len(s) \/ CharAt(s, n + 1) \notin set
        /\ \A i \in 1..n : CharAt(s, i) \in set

trimStart(s) == SubSeq(s, SpanLen(s, WhiteSpace) + 1, Len(s))

trimEnd(s) ==
    LET n == CHOOSE n \in 0..Len(s) :
                /\ n = Len(s) \/ CharAt(s, Len(s) - n) \notin WhiteSpace
                /\ \A i \in (Len(s) - n + 1)..Len(s) : CharAt(s, i) \in WhiteSpace
    IN  SubSeq(s, 1, Len(s) - n)

trim(s) == trimEnd(trimStart(s))


UpperCaseLetters == "ABCDEFGHIJKLMNOPQRSTUVWXYZ"

LowerCaseLetters == "abcdefghijklmnopqrstuvwxyz"

\* One character under the case folding of the regular-expression flag i
\* (ASCII letters; no other character folds onto an ASCII letter there).
toLowerCaseChar(c) ==
    IF \E i \in 1..Len(UpperCaseLetters) : CharAt(UpperCaseLetters, i) = c
    THEN CharAt(LowerCaseLetters,
                CHOOSE i \in 1..Len(UpperCaseLetters) : CharAt(UpperCaseLetters, i) = c)
    ELSE c

RECURSIVE toLowerCase(_)
toLowerCase(s) ==
    IF s = "" THEN "" ELSE toLowerCaseChar(Head(s)) \o toLowerCase(Tail(s))

Drop(s, n) == SubSeq(s, n + 1, Len(s))

(***************************************************************************)
(* The model client: ai.models.generateContent(...) either resolves with a *)
(* response whose .text is a string, resolves with a response whose .text  *)
(* is undefined, or rejects.                                               *)
(***************************************************************************)

TextResponse(t) == [kind |-> "text", text |-> t]

UndefinedTextResponse == [kind |-> "undefined", text |-> ""]

ClientRejects == [kind |-> "rejects", text |-> ""]

\* How the body of a try block ends: with a returned string or by throwing.
Returns(v) == [threw |-> FALSE, value |-> v]

Throws == [threw |-> TRUE, value |-> ""]

\* How the promise of an async function settles.
Fulfilled(v) == [state |-> "fulfilled", value |-> v]

Rejected == [state |-> "rejected", value |-> ""]

\* response.text.trim(): a TypeError when text is undefined; the awaited call
\* throws when the client rejects.
ResponseTextTrim(outcome) ==
    IF outcome.kind = "text" THEN Returns(trim(outcome.text)) ELSE Throws

(***************************************************************************)
(* services/geminiService.ts: extractExpressionFromImage                   *)
(***************************************************************************)

LooksLikeExpression(text) ==
    text # "" /\ HasCharIn(text, Digits) /\ HasCharIn(text, Operators)

\* A variant that strips nothing.
KeepEverything(text) == text

\* text.replace(/[^0-9.+\-*/\s()]/g, '')
SanitizeKeepingSpace(text) ==
    KeepChars(text, Digits \cup Operators \cup {".", "(", ")"} \cup WhiteSpace)

extractExpressionFromImageTry(outcome) ==
    LET t == ResponseTextTrim(outcome)
    IN  IF t.threw THEN Throws
        ELSE LET text == t.value
             IN  IF LooksLikeExpression(text)
                 THEN Returns(SanitizeKeepingSpace(text))
                 ELSE IF startsWith(text, "ERROR:")
                 THEN Returns(text)
                 ELSE Returns("ERROR: Could not recognize a valid expression in the image.")

\* A variant without the catch block: what the try block throws rejects the
\* promise.
extractExpressionFromImageUncaught(outcome) ==
    LET body == extractExpressionFromImageTry(outcome)
    IN  IF body.threw THEN Rejected ELSE Fulfilled(body.value)

extractExpressionFromImage(outcome) ==
    LET body == extractExpressionFromImageTry(outcome)
    IN  IF body.threw
        THEN Fulfilled("ERROR: Failed to communicate with the AI model for extraction.")
        ELSE Fulfilled(body.value)

(***************************************************************************)
(* The second service module (the local variant):                          *)
(* extractExpressionFromImage                                              *)
(***************************************************************************)

Labels == <<"expression", "result", "answer">>

\* Length of the match of /(expression|result|answer)[:\-]?\s*/i at the start
\* of s, 0 when there is none.
LabelMatchLen(s) ==
    LET hits == {k \in 1..Len(Labels) :
                    /\ Len(s) >= Len(Labels[k])
                    /\ toLowerCase(SubSeq(s, 1, Len(Labels[k]))) = Labels[k]}
    IN  IF hits = {} THEN 0
        ELSE LET w    == Len(Labels[CHOOSE k \in hits : \A j \in hits : k <= j])
                 sep  == IF Len(s) > w /\ CharAt(s, w + 1) \in {":", "-"} THEN 1 ELSE 0
             IN  w + sep + SpanLen(Drop(s, w + sep), WhiteSpace)

\* text.replace(/(expression|result|answer)[:\-]?\s*/gi, '')
RECURSIVE StripLabels(_)
StripLabels(s) ==
    IF s = "" THEN ""
    ELSE LET n == LabelMatchLen(s)
         IN  IF n > 0 THEN StripLabels(Drop(s, n))
             ELSE Head(s) \o StripLabels(Tail(s))

\* text.replace(/\s+/g, '')
RemoveWhiteSpace(s) == DropChars(s, WhiteSpace)

\* text.replace(/[^0-9.+\-*/()]/g, '')
Sanitize(text) == KeepChars(text, Digits \cup Operators \cup {".", "(", ")"})

CleanOutput(text) == RemoveWhiteSpace(StripLabels(text))

extractExpressionFromImageLocalTry(outcome) ==
    LET t == ResponseTextTrim(outcome)
    IN  IF t.threw THEN Throws
        ELSE LET text == CleanOutput(t.value)
             IN  IF LooksLikeExpression(text)
                 THEN Returns(Sanitize(text))
                 ELSE IF startsWith(text, "ERROR:")
                 THEN Returns(text)
                 ELSE Returns("ERROR: Could not recognize a valid expression in the image.")

extractExpressionFromImageLocal(outcome) ==
    LET body == extractExpressionFromImageLocalTry(outcome)
    IN  IF body.threw
        THEN Fulfilled("ERROR: Failed to communicate with the AI model for extraction.")
        ELSE Fulfilled(body.value)

(***************************************************************************)
(* Strings as numbers: parseFloat(text) and Number(text).                  *)
(***************************************************************************)

\* Decimal value of a string of digits, saturating at cap.
RECURSIVE DigitsValueCapped(_, _, _)
DigitsValueCapped(s, acc, cap) ==
    IF s = "" THEN acc
    ELSE LET d == CHOOSE v \in 0..9 : CharAt("0123456789", v + 1) = Head(s)
             n == acc * 10 + d
         IN  DigitsValueCapped(Tail(s), IF n > cap THEN cap ELSE n, cap)

\* The longest StrUnsignedDecimalLiteral (other than Infinity) that s starts
\* with: DecimalDigits [. DecimalDigits?] | . DecimalDigits, then an optional
\* ExponentPart. len = 0 when s starts with none. The exponent saturates at
\* Len(s) + 400 in magnitude: the digits and the point move the decimal
\* exponent by less than Len(s), so a saturated exponent leaves the value
\* beyond 1e400 or below 1e-400, on the same side of every double as the exact
\* one.
ScanDecimal(s) ==
    LET intLen  == SpanLen(s, Digits)
        hasDot  == Len(s) > intLen /\ CharAt(s, intLen + 1) = "."
        fracLen == IF hasDot THEN SpanLen(Drop(s, intLen + 1), Digits) ELSE 0
        ok      == intLen > 0 \/ (hasDot /\ fracLen > 0)
        mantLen == intLen + (IF hasDot THEN 1 + fracLen ELSE 0)
        rest    == Drop(s, mantLen)
        hasE    == rest # "" /\ Head(rest) \in {"e", "E"}
        signLen == IF hasE /\ Len(rest) > 1 /\ CharAt(rest, 2) \in {"+", "-"} THEN 1 ELSE 0
        expLen  == IF hasE THEN SpanLen(Drop(rest, 1 + signLen), Digits) ELSE 0
        expMag  == DigitsValueCapped(SubSeq(rest, 2 + signLen, 1 + signLen + expLen),
                                     0, Len(s) + 400)
        expNeg  == signLen = 1 /\ CharAt(rest, 2) = "-"
    IN  IF ~ok THEN [len |-> 0, digits |-> "", point |-> 0, exp |-> 0]
        ELSE [len    |-> mantLen + (IF expLen > 0 THEN 1 + signLen + expLen ELSE 0),
              digits |-> SubSeq(s, 1, intLen) \o SubSeq(s, intLen + 2, intLen + 1 + fracLen),
              point  |-> intLen,
              exp    |-> IF expLen = 0 THEN 0 ELSE IF expNeg THEN 0 - expMag ELSE expMag]

\* The 309 digits of 2^1024 - 2^970, halfway between the largest double and
\* 2^1024: the least magnitude that rounds (ties to even) to Infinity.
OverflowDigits ==
    "17976931348623158079372897140530341507993413271003782693617377898"
    \o "04449682927647509466490179775872070963302864166928879109465555478"
    \o "51940402630657488671505820681908902000708383676273854845817711531"
    \o "76447573027006985557136695962284291481986083493647529271907416844"
    \o "4365510704342711559699508093042880177904174497792"

\* Whether the digit string a denotes, read as a.aaa..., a decimal below
\* b.bbb...: at the first place where they differ, a has the lesser digit.
DigitsLess(a, b) ==
    LET \* digit i of s, read as s.sss... and continued with zeros
        DigitOrZero(s, i) ==
            IF i <= Len(s)
            THEN CHOOSE v \in 0..9 : CharAt("0123456789", v + 1) = CharAt(s, i)
            ELSE 0
        places == 1..(IF Len(a) > Len(b) THEN Len(a) ELSE Len(b))
        differ == {i \in places : DigitOrZero(a, i) # DigitOrZero(b, i)}
    IN  /\ differ # {}
        /\ LET first == CHOOSE i \in differ : \A j \in differ : i <= j
           IN  DigitOrZero(a, first) < DigitOrZero(b, first)

\* Whether the decimal literal scanned as d converts to a finite double: its
\* magnitude is below OverflowDigits, read as 1.79...e308.
DecimalIsFinite(d) ==
    LET zeros == SpanLen(d.digits, {"0"})
        sig   == Drop(d.digits, zeros)
        sci   == d.point - zeros - 1 + d.exp
    IN  \/ sig = ""
        \/ sci < 308
        \/ sci = 308 /\ DigitsLess(sig, OverflowDigits)

SignLen(s) == IF s # "" /\ Head(s) \in {"+", "-"} THEN 1 ELSE 0

\* !isNaN(parseFloat(text)): after leading white space and an optional sign,
\* text starts with a decimal literal or with Infinity.
ParseFloatIsNumber(text) ==
    LET t == Drop(trimStart(text), SignLen(trimStart(text)))
    IN  ScanDecimal(t).len > 0 \/ startsWith(t, "Infinity")

HexDigits == Digits \cup {"a", "b", "c", "d", "e", "f", "A", "B", "C", "D", "E", "F"}

\* Bits per digit of the radix that the prefix 0x, 0o or 0b announces (0 for
\* any other prefix).
RadixBits(t) ==
    IF Len(t) < 2 \/ Head(t) # "0" THEN 0
    ELSE IF CharAt(t, 2) \in {"x", "X"} THEN 4
    ELSE IF CharAt(t, 2) \in {"o", "O"} THEN 3
    ELSE IF CharAt(t, 2) \in {"b", "B"} THEN 1
    ELSE 0

\* 0x.., 0o.., 0b.. with at least one digit of the radix and nothing else.
IsNonDecimalIntegerLiteral(t) ==
    /\ RadixBits(t) > 0
    /\ Len(t) > 2
    /\ OnlyCharsIn(Drop(t, 2),
                   IF RadixBits(t) = 4 THEN HexDigits
                   ELSE IF RadixBits(t) = 3 THEN {"0", "1", "2", "3", "4", "5", "6", "7"}
                   ELSE {"0", "1"})

\* Whether the digits ds, of bits bits each, denote an integer that converts
\* to a finite double: one below 2^1024 - 2^970, that is, of fewer than 1024
\* bits, or of 1024 bits whose leading 54 are not all ones.
RadixDigitsAreFinite(ds, bits) ==
    LET Value(c) ==
            CHOOSE v \in 0..15 : CharAt("0123456789abcdef", v + 1) = toLowerCaseChar(c)
        sig     == Drop(ds, SpanLen(ds, {"0"}))
        \* bits of the leading digit, from its leading one
        lead    == IF sig = "" THEN 0
                   ELSE CHOOSE n \in 1..4 :
                            Value(Head(sig)) < 2 ^ n /\ Value(Head(sig)) >= 2 ^ (n - 1)
        length  == IF sig = "" THEN 0 ELSE bits * (Len(sig) - 1) + lead
        \* bit j of the integer, counted from its leading one
        Bit(j)  == LET p == (bits - lead) + j - 1
                       v == Value(CharAt(sig, (p \div bits) + 1))
                   IN  (v \div 2 ^ (bits - 1 - (p % bits))) % 2
    IN  \/ length < 1024
        \/ length = 1024 /\ \E j \in 1..54 : Bit(j) = 0

\* isFinite(Number(text)): the whole of text, white space trimmed, is empty, a
\* finite signed decimal literal or a non-decimal integer literal.
NumberIsFinite(text) ==
    LET t == trim(text)
        u == Drop(t, SignLen(t))
        d == ScanDecimal(u)
    IN  \/ t = ""
        \/ d.len > 0 /\ d.len = Len(u) /\ DecimalIsFinite(d)
        \/ IsNonDecimalIntegerLiteral(t) /\ RadixDigitsAreFinite(Drop(t, 2), RadixBits(t))

(***************************************************************************)
(* services/geminiService.ts: calculateExpression (the remote variant)     *)
(***************************************************************************)

calculateExpressionTry(outcome) ==
    LET t == ResponseTextTrim(outcome)
    IN  IF t.threw THEN Throws
        ELSE LET text == t.value
             IN  IF ParseFloatIsNumber(text) /\ NumberIsFinite(text)
                 THEN Returns(text)
                 ELSE IF startsWith(text, "ERROR:")
                 THEN Returns(text)
                 ELSE Returns("ERROR: AI returned an invalid numerical format.")

calculateExpression(outcome) ==
    LET body == calculateExpressionTry(outcome)
    IN  IF body.threw
        THEN Fulfilled("ERROR: Failed to communicate with the AI model for calculation.")
        ELSE Fulfilled(body.value)

(***************************************************************************)
(* Natural numbers beyond the integers of the model checker, as needed for *)
(* the 53-bit significands of the language's numbers: a sequence of limbs  *)
(* in base 2^13 = 8192, least significant first, without a leading zero    *)
(* limb; <<>> is zero.                                                     *)
(***************************************************************************)

DigitChar(v) == CharAt("0123456789", v + 1)

DigitValue(c) == CHOOSE v \in 0..9 : DigitChar(v) = c

RECURSIVE IntToString(_)
IntToString(i) ==
    IF i < 10 THEN DigitChar(i) ELSE IntToString(i \div 10) \o DigitChar(i % 10)

\* a without its leading zero limbs
BigTrim(a) ==
    SubSeq(a, 1, CHOOSE n \in 0..Len(a) :
                    /\ n = 0 \/ a[n] # 0
                    /\ \A j \in (n + 1)..Len(a) : a[j] = 0)

\* The limbs of the number whose limbs from i on, before carrying, are those
\* of cols, plus carry.
RECURSIVE Carry(_, _, _)
Carry(cols, i, carry) ==
    IF i > Len(cols)
    THEN (IF carry = 0 THEN <<>> ELSE <<carry % 8192>> \o Carry(cols, i, carry \div 8192))
    ELSE <<(cols[i] + carry) % 8192>> \o Carry(cols, i + 1, (cols[i] + carry) \div 8192)

Limb(a, i) == IF i <= Len(a) THEN a[i] ELSE 0

BigAdd(a, b) ==
    Carry([i \in 1..(IF Len(a) > Len(b) THEN Len(a) ELSE Len(b)) |-> Limb(a, i) + Limb(b, i)],
          1, 0)

\* a - b for a >= b
BigSub(a, b) == BigTrim(Carry([i \in 1..Len(a) |-> a[i] - Limb(b, i)], 1, 0))

\* a * k + c for k, c below 2^17
BigMulSmallAdd(a, k, c) == BigTrim(Carry([i \in 1..Len(a) |-> a[i] * k], 1, c))

BigMulSmall(a, k) == BigMulSmallAdd(a, k, 0)

\* The sum of the products a[i] * b[j] with i + j = k + 1, from i on.
RECURSIVE ColumnSum(_, _, _, _)
ColumnSum(a, b, k, i) ==
    IF i > Len(a) \/ i > k THEN 0
    ELSE Limb(a, i) * Limb(b, k + 1 - i) + ColumnSum(a, b, k, i + 1)

BigMul(a, b) ==
    BigTrim(Carry([k \in 1..(Len(a) + Len(b)) |-> ColumnSum(a, b, k, 1)], 1, 0))

BigLess(a, b) ==
    IF Len(a) # Len(b) THEN Len(a) < Len(b)
    ELSE \E i \in 1..Len(a) : a[i] < b[i] /\ \A j \in (i + 1)..Len(a) : a[j] = b[j]

\* 2^k
BigPow2(k) == [i \in 1..(k \div 13) |-> 0] \o <<2^(k % 13)>>

\* 10^k
RECURSIVE BigPow10(_)
BigPow10(k) == IF k < 4 THEN <<10^k>> ELSE BigMulSmall(BigPow10(k - 4), 10000)

\* Quotient and remainder of the limbs 1..i of a by k below 2^17, rem being
\* what the higher limbs left.
RECURSIVE BigDivSmallFrom(_, _, _, _)
BigDivSmallFrom(a, k, i, rem) ==
    IF i = 0 THEN [q |-> <<>>, r |-> rem]
    ELSE LET rest == BigDivSmallFrom(a, k, i - 1, (rem * 8192 + a[i]) % k)
         IN  [q |-> rest.q \o <<(rem * 8192 + a[i]) \div k>>, r |-> rest.r]

TrimQuotient(dm) == [q |-> BigTrim(dm.q), r |-> dm.r]

BigDivSmall(a, k) == TrimQuotient(BigDivSmallFrom(a, k, Len(a), 0))

\* The largest limb q in lo..hi with b * q <= a.
RECURSIVE QuotientLimb(_, _, _, _)
QuotientLimb(a, b, lo, hi) ==
    IF lo = hi THEN lo
    ELSE IF BigLess(a, BigMulSmall(b, (lo + hi + 1) \div 2))
    THEN QuotientLimb(a, b, lo, (lo + hi + 1) \div 2 - 1)
    ELSE QuotientLimb(a, b, (lo + hi + 1) \div 2, hi)

\* Long division of the limbs 1..i of a, rem being what the higher limbs left.
RECURSIVE BigDivModFrom(_, _, _, _)
BigDivModFrom(a, b, i, rem) ==
    IF i = 0 THEN [q |-> <<>>, r |-> rem]
    ELSE LET cur  == BigTrim(<<a[i]>> \o rem)
             limb == IF BigLess(cur, b) THEN 0 ELSE QuotientLimb(cur, b, 1, 8191)
             rest == BigDivModFrom(a, b, i - 1, BigSub(cur, BigMulSmall(b, limb)))
         IN  [q |-> rest.q \o <<limb>>, r |-> rest.r]

\* Quotient and remainder of a by b > 0.
BigDivMod(a, b) == TrimQuotient(BigDivModFrom(a, b, Len(a), <<>>))

IsOdd(a) == a # <<>> /\ a[1] % 2 = 1

\* Number of binary digits of a.
BitLength(a) ==
    IF a = <<>> THEN 0
    ELSE 13 * (Len(a) - 1) + CHOOSE n \in 1..13 : 2^(n - 1) <= a[Len(a)] /\ a[Len(a)] < 2^n

\* Value of a string of digits in the given radix (at most 10).
RECURSIVE BigFromDigits(_, _, _)
BigFromDigits(s, acc, radix) ==
    IF s = "" THEN acc
    ELSE BigFromDigits(Tail(s), BigMulSmallAdd(acc, radix, DigitValue(Head(s))), radix)

\* The decimal digits of a > 0.
RECURSIVE BigToString(_)
BigToString(a) ==
    IF BigLess(a, <<1808, 1>>) THEN IntToString(Limb(a, 1) + 8192 * Limb(a, 2))
    ELSE BigToString(BigDivSmall(a, 10000).q)
         \o SubSeq(IntToString(10000 + BigDivSmall(a, 10000).r), 2, 5)

(***************************************************************************)
(* Values of the language the local evaluator hands its input to. A finite *)
(* number is a double: sign, significand m (odd, below 2^53) and exponent  *)
(* e, the value being m * 2^e; zero is signed and has m = <<>>, e = 0.     *)
(* Every operation rounds its exact result to the nearest double, ties to  *)
(* the even significand. A string value only ever arises from `+` on a     *)
(* regular-expression object and always contains a `/`, so it converts to  *)
(* NaN; its text is not kept.                                              *)
(***************************************************************************)

Infinity(neg) == [t |-> "infinity", neg |-> neg, m |-> <<>>, e |-> 0]

NaN == [t |-> "NaN", neg |-> FALSE, m |-> <<>>, e |-> 0]

StringValue == [t |-> "string", neg |-> FALSE, m |-> <<>>, e |-> 0]

RegExpObject == [t |-> "regexp", neg |-> FALSE, m |-> <<>>, e |-> 0]

Undefined == [t |-> "undefined", neg |-> FALSE, m |-> <<>>, e |-> 0]

\* Not a value: the evaluation threw a TypeError.
TypeError == [t |-> "TypeError", neg |-> FALSE, m |-> <<>>, e |-> 0]

Zero(neg) == [t |-> "number", neg |-> neg, m |-> <<>>, e |-> 0]

\* Index of the lowest limb of m > 0 that is not zero.
LowLimb(m) == CHOOSE i \in 1..Len(m) : m[i] # 0 /\ \A j \in 1..(i - 1) : m[j] = 0

\* Number of trailing zero bits of the limb x > 0.
TrailingZeros(x) == CHOOSE k \in 0..12 : x % 2^(k + 1) = 2^k

OddPart(neg, m, e, bits) ==
    [t |-> "number", neg |-> neg, m |-> BigDivSmall(m, 2^bits).q, e |-> e + bits]

\* The double m * 2^e for m below 2^53, with m made odd.
Num(neg, m, e) ==
    IF m = <<>> THEN Zero(neg)
    ELSE OddPart(neg, SubSeq(m, LowLimb(m), Len(m)), e + 13 * (LowLimb(m) - 1),
                 TrailingZeros(m[LowLimb(m)]))

\* The significand q \div 2^drop rounded by what the division leaves (sticky:
\* the exact value lay above q), and Infinity from 2^1024 on.
RoundedAt(neg, kept, e, half, sticky) ==
    LET up == \/ BigLess(half, kept.r)
              \/ kept.r = half /\ (sticky \/ IsOdd(kept.q))
        m  == IF up THEN BigAdd(kept.q, <<1>>) ELSE kept.q
    IN  IF BitLength(m) + e > 1024 THEN Infinity(neg) ELSE Num(neg, m, e)

\* The double nearest to q * 2^e (a little more when sticky): q keeps its 53
\* leading bits, fewer where the exponent would fall below -1074.
RoundBits(neg, q, sticky, e) ==
    LET over == BitLength(q) - 53
        drop == IF 0 - 1074 - e > over THEN 0 - 1074 - e ELSE over
    IN  IF drop <= 0
        THEN (IF BitLength(q) + e > 1024 THEN Infinity(neg) ELSE Num(neg, q, e))
        ELSE RoundedAt(neg, BigDivMod(q, BigPow2(drop)), e + drop,
                       BigPow2(drop - 1), sticky)

\* The double nearest to (n / d) * 2^e for n, d > 0, from a quotient of at
\* least 55 bits.
RoundQuotient(neg, dm, e) == RoundBits(neg, dm.q, dm.r # <<>>, e)

RoundRational(neg, n, d, e) ==
    LET s == 56 - (BitLength(n) - BitLength(d))
    IN  IF s >= 0
        THEN RoundQuotient(neg, BigDivMod(BigMul(n, BigPow2(s)), d), e - s)
        ELSE RoundQuotient(neg, BigDivMod(n, BigMul(d, BigPow2(0 - s))), e - s)

\* typeof v === 'number'
IsNumberType(v) == v.t \in {"number", "infinity", "NaN"}

ToNumber(v) == IF IsNumberType(v) THEN v ELSE NaN

Negate(v) ==
    IF v.t \in {"number", "infinity"} THEN [v EXCEPT !.neg = ~v.neg] ELSE v

\* The sum of two finite numbers with significands a and b at a common
\* exponent e.
AddAligned(xneg, a, yneg, b, e) ==
    IF xneg = yneg THEN RoundBits(xneg, BigAdd(a, b), FALSE, e)
    ELSE IF a = b THEN Zero(FALSE)
    ELSE IF BigLess(a, b) THEN RoundBits(yneg, BigSub(b, a), FALSE, e)
    ELSE RoundBits(xneg, BigSub(a, b), FALSE, e)

\* x + y on numbers
NumberAdd(x, y) ==
    IF x.t = "NaN" \/ y.t = "NaN" THEN NaN
    ELSE IF x.t = "infinity" /\ y.t = "infinity"
    THEN (IF x.neg = y.neg THEN x ELSE NaN)
    ELSE IF x.t = "infinity" THEN x
    ELSE IF y.t = "infinity" THEN y
    ELSE IF x.m = <<>> /\ y.m = <<>> THEN Zero(x.neg /\ y.neg)
    ELSE IF x.m = <<>> THEN y
    ELSE IF y.m = <<>> THEN x
    ELSE IF x.e <= y.e
    THEN AddAligned(x.neg, x.m, y.neg, BigMul(y.m, BigPow2(y.e - x.e)), x.e)
    ELSE AddAligned(x.neg, BigMul(x.m, BigPow2(x.e - y.e)), y.neg, y.m, y.e)

\* x * y on numbers
NumberMultiply(x, y) ==
    IF x.t = "NaN" \/ y.t = "NaN" THEN NaN
    ELSE IF x.t = "infinity" \/ y.t = "infinity"
    THEN (IF (x.t = "number" /\ x.m = <<>>) \/ (y.t = "number" /\ y.m = <<>>)
          THEN NaN ELSE Infinity(x.neg # y.neg))
    ELSE RoundBits(x.neg # y.neg, BigMul(x.m, y.m), FALSE, x.e + y.e)

\* x / y on numbers
NumberDivide(x, y) ==
    IF x.t = "NaN" \/ y.t = "NaN" THEN NaN
    ELSE IF x.t = "infinity"
    THEN (IF y.t = "infinity" THEN NaN ELSE Infinity(x.neg # y.neg))
    ELSE IF y.t = "infinity" THEN Zero(x.neg # y.neg)
    ELSE IF y.m = <<>>
    THEN (IF x.m = <<>> THEN NaN ELSE Infinity(x.neg # y.neg))
    ELSE IF x.m = <<>> THEN Zero(x.neg # y.neg)
    ELSE RoundRational(x.neg # y.neg, x.m, y.m, x.e - y.e)

\* The binary operators op on values; an operand that threw makes the whole
\* expression throw. `+` concatenates when an operand is an object or a string.
ApplyBinary(op, a, b) ==
    IF a.t = "TypeError" \/ b.t = "TypeError" THEN TypeError
    ELSE IF op = "+"
    THEN (IF IsNumberType(a) /\ IsNumberType(b) THEN NumberAdd(a, b) ELSE StringValue)
    ELSE IF op = "-" THEN NumberAdd(ToNumber(a), Negate(ToNumber(b)))
    ELSE IF op = "*" THEN NumberMultiply(ToNumber(a), ToNumber(b))
    ELSE NumberDivide(ToNumber(a), ToNumber(b))

\* The unary operators + and -.
ApplyUnary(op, a) ==
    IF a.t = "TypeError" THEN TypeError
    ELSE IF op = "-" THEN Negate(ToNumber(a))
    ELSE ToNumber(a)

(***************************************************************************)
(* new Function(`return ${sanitizedExpression}`)(): the source text is     *)
(* only ever made of digits, `.`, the four operators, parentheses and      *)
(* white space, with no two operator characters next to each other (so no  *)
(* `//`, `/*`, `++`, `--` or `**` token can occur). It is tokenized,       *)
(* parsed as the operand of `return` followed by further expression        *)
(* statements (automatic semicolon insertion), and evaluated.              *)
(***************************************************************************)

OctalDigits == {"0", "1", "2", "3", "4", "5", "6", "7"}

\* The NumericLiteral that s starts with (s starts with a digit, or with `.`
\* and a digit). A literal with a leading 0 and further octal digits is a
\* legacy octal integer (sloppy mode) and takes no fraction; with a digit 8
\* or 9 it is decimal.
DecimalLiteralValue(digits, fracLen) ==
    IF BigFromDigits(digits, <<>>, 10) = <<>> THEN Zero(FALSE)
    ELSE RoundRational(FALSE, BigFromDigits(digits, <<>>, 10), BigPow10(fracLen), 0)

ScanNumericLiteral(s) ==
    LET intLen  == SpanLen(s, Digits)
        legacy  == intLen > 1 /\ Head(s) = "0" /\ OnlyCharsIn(SubSeq(s, 1, intLen), OctalDigits)
        hasDot  == Len(s) > intLen /\ CharAt(s, intLen + 1) = "."
        fracLen == IF hasDot THEN SpanLen(Drop(s, intLen + 1), Digits) ELSE 0
    IN  IF legacy
        THEN [len   |-> intLen,
              value |-> RoundBits(FALSE, BigFromDigits(SubSeq(s, 1, intLen), <<>>, 8), FALSE, 0)]
        ELSE [len   |-> intLen + (IF hasDot THEN 1 + fracLen ELSE 0),
              value |-> DecimalLiteralValue(SubSeq(s, 1, intLen)
                                            \o SubSeq(s, intLen + 2, intLen + 1 + fracLen),
                                            fracLen)]

\* Index of the first c in s, 0 when there is none.
RECURSIVE IndexOf(_, _)
IndexOf(s, c) ==
    IF s = "" THEN 0
    ELSE IF Head(s) = c THEN 1
    ELSE LET i == IndexOf(Tail(s), c) IN IF i = 0 THEN 0 ELSE i + 1

\* Whether body is a valid regular-expression pattern (an early error
\* otherwise). Of the pattern syntax only groups and the quantifiers + and *
\* can be written: parentheses must match and a quantifier must follow an atom.
RECURSIVE PatternValid(_, _, _)
PatternValid(body, depth, prev) ==
    IF body = "" THEN depth = 0
    ELSE LET c == Head(body)
         IN  IF c = "(" THEN PatternValid(Tail(body), depth + 1, c)
             ELSE IF c = ")" THEN depth > 0 /\ PatternValid(Tail(body), depth - 1, c)
             ELSE IF c \in {"+", "*"}
             THEN prev \notin {"", "(", "+", "*"} /\ PatternValid(Tail(body), depth, c)
             ELSE PatternValid(Tail(body), depth, c)

\* The RegularExpressionLiteral that s starts with (s starts with `/` where an
\* operand may start): len = 0 when it is unterminated, spans a line
\* terminator, carries flags (only digits can follow, and no digit is a
\* flag) or its pattern is invalid.
ScanRegExpLiteral(s) ==
    LET close == IndexOf(Tail(s), "/")
        body  == SubSeq(Tail(s), 1, close - 1)
    IN  IF \/ close = 0
           \/ body = ""
           \/ HasCharIn(body, LineTerminators)
           \/ SpanLen(Drop(s, close + 1), Digits) > 0
           \/ ~PatternValid(body, 0, "")
        THEN [len |-> 0]
        ELSE [len |-> close + 1]

Token(k, v, nl) == [k |-> k, v |-> v, nl |-> nl]

\* The tokens of s. operand: the previous token ends an operand, so a `/` is a
\* division; nl: a line terminator has been passed since the previous token.
RECURSIVE Tokenize(_, _, _)
Tokenize(s, operand, nl) ==
    IF s = "" THEN [err |-> FALSE, toks |-> <<>>]
    ELSE LET c == Head(s)
         IN  IF c \in WhiteSpace
             THEN Tokenize(Tail(s), operand, nl \/ c \in LineTerminators)
             ELSE IF c \in Digits \/ (c = "." /\ Len(s) > 1 /\ CharAt(s, 2) \in Digits)
             THEN LET lit  == ScanNumericLiteral(s)
                      rest == Tokenize(Drop(s, lit.len), TRUE, FALSE)
                  IN  [err |-> rest.err, toks |-> <<Token("number", lit.value, nl)>> \o rest.toks]
             ELSE IF c = "/" /\ ~operand
             THEN LET lit == ScanRegExpLiteral(s)
                  IN  IF lit.len = 0 THEN [err |-> TRUE, toks |-> <<>>]
                      ELSE LET rest == Tokenize(Drop(s, lit.len), TRUE, FALSE)
                           IN  [err |-> rest.err,
                                toks |-> <<Token("regexp", RegExpObject, nl)>> \o rest.toks]
             ELSE IF startsWith(s, "...")
             THEN LET rest == Tokenize(Drop(s, 3), FALSE, FALSE)
                  IN  [err |-> rest.err, toks |-> <<Token("...", NaN, nl)>> \o rest.toks]
             ELSE IF c \in Operators \cup {"(", ")", "."}
             THEN LET rest == Tokenize(Tail(s), c = ")", FALSE)
                  IN  [err |-> rest.err, toks |-> <<Token(c, NaN, nl)>> \o rest.toks]
             ELSE [err |-> TRUE, toks |-> <<>>]

\* Kind of the token at position p, "EOF" past the end.
At(toks, p) == IF p <= Len(toks) THEN toks[p].k ELSE "EOF"

\* The expressions that can be written.
LiteralNode(v) == [node |-> "literal", value |-> v]

UnaryNode(op, arg) == [node |-> "unary", op |-> op, arg |-> arg]

BinaryNode(op, left, right) == [node |-> "binary", op |-> op, left |-> left, right |-> right]

\* A call; no callee is callable, whatever it and its arguments are.
CallNode == [node |-> "call"]

\* What a parse of an expression starting at some token yields: whether it
\* succeeded, the position after it and the expression.
Parsed(p, v) == [ok |-> TRUE, pos |-> p, val |-> v]

NotParsed == [ok |-> FALSE, pos |-> 0, val |-> CallNode]

RECURSIVE ParseAdditive(_, _), ParseAdditiveRest(_, _, _),
          ParseMultiplicative(_, _), ParseMultiplicativeRest(_, _, _),
          ParseUnary(_, _), ParseCallRest(_, _, _), ParsePrimary(_, _)

\* PrimaryExpression: a numeric literal, a regular-expression literal or a
\* parenthesized expression.
ParsePrimary(toks, p) ==
    IF At(toks, p) \in {"number", "regexp"} THEN Parsed(p + 1, LiteralNode(toks[p].v))
    ELSE IF At(toks, p) = "("
    THEN LET e == ParseAdditive(toks, p + 1)
         IN  IF e.ok /\ At(toks, e.pos) = ")" THEN Parsed(e.pos + 1, e.val)
             ELSE NotParsed
    ELSE NotParsed

\* CallExpression: any number of argument lists after a primary expression,
\* each empty or one (possibly spread) argument, there being no comma. No
\* value here is callable, so evaluating a call throws a TypeError. A `.` after
\* an operand starts a member access, which needs a name: a syntax error.
ParseCallRest(toks, p, v) ==
    IF At(toks, p) = "("
    THEN IF At(toks, p + 1) = ")" THEN ParseCallRest(toks, p + 2, CallNode)
         ELSE LET arg == ParseAdditive(toks, IF At(toks, p + 1) = "..." THEN p + 2 ELSE p + 1)
              IN  IF arg.ok /\ At(toks, arg.pos) = ")"
                  THEN ParseCallRest(toks, arg.pos + 1, CallNode)
                  ELSE NotParsed
    ELSE IF At(toks, p) = "." THEN NotParsed
    ELSE Parsed(p, v)

\* UnaryExpression: + and - prefixes, then a call or primary expression.
ParseUnary(toks, p) ==
    IF At(toks, p) \in {"+", "-"}
    THEN LET e == ParseUnary(toks, p + 1)
         IN  IF e.ok THEN Parsed(e.pos, UnaryNode(toks[p].k, e.val)) ELSE NotParsed
    ELSE LET e == ParsePrimary(toks, p)
         IN  IF e.ok THEN ParseCallRest(toks, e.pos, e.val) ELSE NotParsed

\* MultiplicativeExpression, left to right.
ParseMultiplicativeRest(toks, p, left) ==
    IF At(toks, p) \in {"*", "/"}
    THEN LET e == ParseUnary(toks, p + 1)
         IN  IF e.ok
             THEN ParseMultiplicativeRest(toks, e.pos, BinaryNode(toks[p].k, left, e.val))
             ELSE NotParsed
    ELSE Parsed(p, left)

ParseMultiplicative(toks, p) ==
    LET e == ParseUnary(toks, p)
    IN  IF e.ok THEN ParseMultiplicativeRest(toks, e.pos, e.val) ELSE NotParsed

\* AdditiveExpression, left to right.
ParseAdditiveRest(toks, p, left) ==
    IF At(toks, p) \in {"+", "-"}
    THEN LET e == ParseMultiplicative(toks, p + 1)
         IN  IF e.ok
             THEN ParseAdditiveRest(toks, e.pos, BinaryNode(toks[p].k, left, e.val))
             ELSE NotParsed
    ELSE Parsed(p, left)

ParseAdditive(toks, p) ==
    LET e == ParseMultiplicative(toks, p)
    IN  IF e.ok THEN ParseAdditiveRest(toks, e.pos, e.val) ELSE NotParsed

\* Whether the tokens from p on are expression statements, each ended by the
\* end of the text or by a semicolon inserted before a token on a new line
\* that cannot continue the expression.
RECURSIVE ParseStatements(_, _)
ParseStatements(toks, p) ==
    \/ p > Len(toks)
    \/ LET e == ParseAdditive(toks, p)
       IN  /\ e.ok
           /\ \/ e.pos > Len(toks)
              \/ toks[e.pos].nl /\ ParseStatements(toks, e.pos)

\* new Function(`return ${source}`)(): Throws for a SyntaxError of the
\* constructor or a TypeError of the call, the returned value otherwise. A
\* line terminator between `return` and the first token ends the return
\* statement there (no LineTerminator is allowed after `return`), and so does
\* an empty operand: the function returns undefined.
\* The value of an expression: a call throws a TypeError, and so does every
\* expression around it.
RECURSIVE Evaluate(_)
Evaluate(e) ==
    IF e.node = "literal" THEN e.value
    ELSE IF e.node = "unary" THEN ApplyUnary(e.op, Evaluate(e.arg))
    ELSE IF e.node = "binary" THEN ApplyBinary(e.op, Evaluate(e.left), Evaluate(e.right))
    ELSE TypeError

Completion(v) ==
    IF v.t = "TypeError" THEN [threw |-> TRUE, value |-> Undefined]
    ELSE [threw |-> FALSE, value |-> v]

ReturnOperand(toks, e) ==
    IF ~e.ok THEN [threw |-> TRUE, value |-> Undefined]
    ELSE IF e.pos <= Len(toks) /\ ~(toks[e.pos].nl /\ ParseStatements(toks, e.pos))
    THEN [threw |-> TRUE, value |-> Undefined]
    ELSE Completion(Evaluate(e.val))

RunTokens(toks) ==
    IF toks = <<>> THEN [threw |-> FALSE, value |-> Undefined]
    ELSE IF toks[1].nl
    THEN [threw |-> ~ParseStatements(toks, 1), value |-> Undefined]
    ELSE ReturnOperand(toks, ParseAdditive(toks, 1))

RunFunction(source) ==
    LET lex == Tokenize(source, FALSE, FALSE)
    IN  IF lex.err THEN [threw |-> TRUE, value |-> Undefined]
        ELSE RunTokens(lex.toks)

(***************************************************************************)
(* result.toString() of a finite number: Number::toString, which prints    *)
(* the fewest decimal digits that read back as the same double (the digits *)
(* nearest to it when several do) in positional or exponential notation.   *)
(***************************************************************************)

RECURSIVE StripTrailingZeros(_)
StripTrailingZeros(s) ==
    IF s # "" /\ CharAt(s, Len(s)) = "0" THEN StripTrailingZeros(SubSeq(s, 1, Len(s) - 1))
    ELSE s

RECURSIVE Zeros(_)
Zeros(k) == IF k <= 0 THEN "" ELSE "0" \o Zeros(k - 1)

\* The notation of Number::toString for the digits D (no leading or trailing
\* zero) and the exponent n, the value being 0.D * 10^n.
FormatDigits(D, n) ==
    LET k == Len(D)
    IN  IF k <= n /\ n <= 21 THEN D \o Zeros(n - k)
        ELSE IF 0 < n /\ n <= 21 THEN SubSeq(D, 1, n) \o "." \o Drop(D, n)
        ELSE IF 0 - 6 < n /\ n <= 0 THEN "0." \o Zeros(0 - n) \o D
        ELSE (IF k = 1 THEN D ELSE SubSeq(D, 1, 1) \o "." \o Drop(D, 1))
             \o "e" \o (IF n - 1 < 0 THEN "-" \o IntToString(1 - n) ELSE "+" \o IntToString(n - 1))

\* The least i >= 1 with p * 10^i >= q.
RECURSIVE LeadingShift(_, _)
LeadingShift(p, q) ==
    IF BigLess(BigMulSmall(p, 10), q) THEN 1 + LeadingShift(BigMulSmall(p, 10), q) ELSE 1

\* The n with 10^(n-1) <= p/q < 10^n.
DecimalExponent(p, q) ==
    IF BigLess(p, q) THEN 1 - LeadingShift(p, q)
    ELSE Len(BigToString(BigDivMod(p, q).q))

\* Whether the decimal s * 10^(n-k) reads back as the double v > 0.
ReadsBack(s, n, k, v) ==
    RoundRational(FALSE, BigMul(s, BigPow10(IF n > k THEN n - k ELSE 0)),
                  BigPow10(IF k > n THEN k - n ELSE 0), 0) = v

RECURSIVE ShortestDigits(_, _, _, _, _)

\* Of the k-digit decimals lo and hi around v, the one that reads back as v,
\* the nearer when both do; k + 1 digits when neither does.
PickBetween(v, p, q, n, k, lo, hi, lowerIsNearer, loReadsBack, hiReadsBack) ==
    IF loReadsBack /\ (lowerIsNearer \/ ~hiReadsBack) THEN lo
    ELSE IF hiReadsBack THEN hi
    ELSE IF k >= 17 THEN (IF lowerIsNearer THEN lo ELSE hi)
    ELSE ShortestDigits(v, p, q, n, k + 1)

\* dm: quotient and remainder of p/q * 10^(k-n) by the denominator den.
PickDigits(v, p, q, n, k, dm, den) ==
    IF dm.r = <<>> THEN dm.q
    ELSE PickBetween(v, p, q, n, k, dm.q, BigAdd(dm.q, <<1>>),
                     \/ BigLess(BigMulSmall(dm.r, 2), den)
                     \/ BigMulSmall(dm.r, 2) = den /\ ~IsOdd(dm.q),
                     ReadsBack(dm.q, n, k, v),
                     ReadsBack(BigAdd(dm.q, <<1>>), n, k, v))

ScaledBy(p, n, k, den) ==
    BigDivMod(BigMul(p, BigPow10(IF k > n THEN k - n ELSE 0)), den)

\* The digits s (k of them, or 10^k) with s * 10^(n-k) the shortest decimal
\* that reads back as v = p/q.
ShortestDigits(v, p, q, n, k) ==
    PickDigits(v, p, q, n, k,
               ScaledBy(p, n, k, BigMul(q, BigPow10(IF n > k THEN n - k ELSE 0))),
               BigMul(q, BigPow10(IF n > k THEN n - k ELSE 0)))

FormatShortest(digits, n) ==
    FormatDigits(StripTrailingZeros(digits),
                 IF StripTrailingZeros(digits) = "1" /\ Len(digits) > 1 THEN n + 1 ELSE n)

ShortestFrom(v, p, q, n) == FormatShortest(BigToString(ShortestDigits(v, p, q, n, 1)), n)

MagnitudeToString(v, p, q) == ShortestFrom(v, p, q, DecimalExponent(p, q))

\* result.toString() for a finite number (both zeros print as 0).
NumberToString(v) ==
    IF v.m = <<>> THEN "0"
    ELSE (IF v.neg THEN "-" ELSE "")
         \o MagnitudeToString([v EXCEPT !.neg = FALSE],
                              BigMul(v.m, BigPow2(IF v.e > 0 THEN v.e ELSE 0)),
                              BigPow2(IF v.e < 0 THEN 0 - v.e ELSE 0))

(***************************************************************************)
(* The second service module: calculateExpression (the local variant)      *)
(***************************************************************************)

\* expression.replace(/[^0-9.+\-*/()\s]/g, '')
SanitizeExpression(expr) ==
    KeepChars(expr, Digits \cup Operators \cup {".", "(", ")"} \cup WhiteSpace)

\* A variant that only finds an operator written twice.
HasDoubledOperator(s) ==
    \E i \in 1..(Len(s) - 1) : CharAt(s, i) \in Operators /\ CharAt(s, i + 1) = CharAt(s, i)

\* /[*\/+\-]{2,}/.test(s)
HasOperatorSequence(s) ==
    \E i \in 1..(Len(s) - 1) : CharAt(s, i) \in Operators /\ CharAt(s, i + 1) \in Operators

\* A variant without the typeof / isFinite test: result.toString() of whatever
\* the evaluation gave (undefined.toString() throws).
ResultToStringUnchecked(run) ==
    IF run.threw \/ run.value.t = "undefined"
    THEN [threw |-> TRUE, evaluated |-> TRUE, value |-> ""]
    ELSE IF run.value.t = "number"
    THEN [threw |-> FALSE, evaluated |-> TRUE, value |-> NumberToString(run.value)]
    ELSE IF run.value.t = "infinity"
    THEN [threw |-> FALSE, evaluated |-> TRUE,
          value |-> (IF run.value.neg THEN "-" ELSE "") \o "Infinity"]
    ELSE [threw |-> FALSE, evaluated |-> TRUE, value |-> "NaN"]

\* What the try block returns for the outcome of the evaluation.
ResultToString(run) ==
    IF run.threw
    THEN [threw |-> TRUE, evaluated |-> TRUE, value |-> ""]
    ELSE IF run.value.t = "number"
    THEN [threw |-> FALSE, evaluated |-> TRUE, value |-> NumberToString(run.value)]
    ELSE [threw |-> FALSE, evaluated |-> TRUE,
          value |-> "ERROR: Calculation resulted in an invalid number."]

\* The try block: how it ends, and whether it got to evaluate the expression.
calculateExpressionLocalTry(expr) ==
    LET sanitizedExpression == SanitizeExpression(expr)
    IN  IF sanitizedExpression # expr
        THEN [threw |-> FALSE, evaluated |-> FALSE,
              value |-> "ERROR: Expression contains invalid characters."]
        ELSE IF HasOperatorSequence(sanitizedExpression)
        THEN [threw |-> FALSE, evaluated |-> FALSE,
              value |-> "ERROR: Invalid operator sequence."]
        ELSE ResultToString(RunFunction(sanitizedExpression))

\* The catch block around it.
CatchLocal(body) ==
    IF body.threw
    THEN Fulfilled("ERROR: Invalid or unrecognized mathematical expression.")
    ELSE Fulfilled(body.value)

calculateExpressionLocal(expr) ==
    CatchLocal(calculateExpressionLocalTry(expr))

(***************************************************************************)
(* Calls of the four service functions, one at a time.                     *)
(***************************************************************************)

VARIABLES
    svcFn,        \* the function called: "extract", "extractLocal", "calculate", "calculateLocal"
    svcInput,     \* the expression argument ("" for the extractors)
    svcPhase,     \* "idle", "awaiting" (generateContent is pending), "settled"
    svcOutcome,   \* what the model client did
    svcPromise,   \* how the promise the function returned settled
    svcEvaluated  \* whether the local evaluator got to evaluate the expression

svcVars == <<svcFn, svcInput, svcPhase, svcOutcome, svcPromise, svcEvaluated>>

VARIABLES
    imagePreview,  \* useState<string | null>: Null or Str(s)
    expression,
    result,
    error,
    processState,  \* "idle", "processing", "success", "error"
    invocations,   \* the calls of handleImageChange so far, each where it stands
    lastWriter     \* the call whose code last set expression, result, error or
                   \* processState; 0 when the user's reset or edit did

appVars == <<imagePreview, expression, result, error, processState, invocations, lastWriter>>

vars == <<svcVars, appVars>>

\* A value of type string | null.
Null == <<>>

Str(s) == <<s>>

\* !value of JavaScript
Falsy(value) == value = Null \/ value = Str("")

AppInit ==
    /\ imagePreview = Null
    /\ expression = Null
    /\ result = Null
    /\ error = Null
    /\ processState = "idle"
    /\ invocations = <<>>
    /\ lastWriter = 0

NoOutcome == [kind |-> "none", text |-> ""]

Pending == [state |-> "pending", value |-> ""]

\* All concatenations of at most n members of parts.
RECURSIVE Concatenations(_, _)
Concatenations(parts, n) ==
    IF n = 0 THEN {""}
    ELSE LET shorter == Concatenations(parts, n - 1)
         IN  shorter \cup {s \o c : s \in shorter, c \in parts}

\* Longest expression, in characters, handed to the local evaluator.
MaxExprLen == 3

\* Most pieces a model response is put together from.
MaxResponseParts == 2

ExprAlphabet ==
    {"0", "2", "8", "+", "-", "*", "/", "(", ")", ".", " ", "\n", " ", "x"}

\* The examples of the specification and of the prompts.
SeedExpressions ==
    {"2+3*4", "(2+3)*4", "34+54+67+87", "5/0", "3++4", "5*/2", "3+-4", "25+30+40+60"}

Expressions == Concatenations(ExprAlphabet, MaxExprLen) \cup SeedExpressions

\* Pieces of what the model answers to the extraction prompts.
ExtractParts ==
    {"ERROR: No expression found", "ERROR:", "Result: ", "answer", "expression",
     "34+54", "3", "+", "-", "=", "x", " ", "\n", "", " "}

\* Pieces of what the model answers to the calculation prompt.
CalculateParts ==
    {"ERROR: Invalid expression", "ERROR:", "242", "5", "-", ".", "e", "999",
     "0x", "1F", "Infinity", " ", "", "is"}

ClientOutcomes(parts) ==
    {UndefinedTextResponse, ClientRejects}
        \cup {TextResponse(t) : t \in Concatenations(parts, MaxResponseParts)}

SvcInit ==
    /\ svcFn = "none"
    /\ svcInput = ""
    /\ svcPhase = "idle"
    /\ svcOutcome = NoOutcome
    /\ svcPromise = Pending
    /\ svcEvaluated = FALSE

\* extractExpressionFromImage(base64, mimeType) of either module is called and
\* awaits the model client.
CallExtract ==
    /\ UNCHANGED appVars
    /\ svcPhase = "idle"
    /\ \E fn \in {"extract", "extractLocal"} : svcFn' = fn
    /\ svcInput' = ""
    /\ svcPhase' = "awaiting"
    /\ svcOutcome' = NoOutcome
    /\ svcPromise' = Pending
    /\ svcEvaluated' = FALSE

\* The remote calculateExpression(expression) is called and awaits the client.
CallCalculate ==
    /\ UNCHANGED appVars
    /\ svcPhase = "idle"
    /\ svcFn' = "calculate"
    /\ svcInput' \in SeedExpressions
    /\ svcPhase' = "awaiting"
    /\ svcOutcome' = NoOutcome
    /\ svcPromise' = Pending
    /\ svcEvaluated' = FALSE

\* The model client settles and the awaiting function runs to its end.
ClientSettles ==
    /\ UNCHANGED appVars
    /\ svcPhase = "awaiting"
    /\ \E outcome \in ClientOutcomes(IF svcFn = "calculate" THEN CalculateParts
                                     ELSE ExtractParts) :
          /\ svcOutcome' = outcome
          /\ svcPromise' = IF svcFn = "extract" THEN extractExpressionFromImage(outcome)
                           ELSE IF svcFn = "extractLocal"
                           THEN extractExpressionFromImageLocal(outcome)
                           ELSE calculateExpression(outcome)
    /\ svcPhase' = "settled"
    /\ UNCHANGED <<svcFn, svcInput, svcEvaluated>>

\* The local calculateExpression(expression) is called; it awaits nothing.
CallCalculateLocal ==
    /\ UNCHANGED appVars
    /\ svcPhase = "idle"
    /\ \E input \in Expressions :
          /\ svcInput' = input
          /\ svcPromise' = calculateExpressionLocal(input)
          /\ svcEvaluated' = calculateExpressionLocalTry(input).evaluated
    /\ svcFn' = "calculateLocal"
    /\ svcPhase' = "settled"
    /\ svcOutcome' = NoOutcome

\* The caller has taken the result.
SvcReturn ==
    /\ UNCHANGED appVars
    /\ svcPhase = "settled"
    /\ svcFn' = "none"
    /\ svcInput' = ""
    /\ svcPhase' = "idle"
    /\ svcOutcome' = NoOutcome
    /\ svcPromise' = Pending
    /\ svcEvaluated' = FALSE

SvcNext ==
    \/ CallExtract
    \/ CallCalculate
    \/ ClientSettles
    \/ CallCalculateLocal
    \/ SvcReturn

Init == SvcInit /\ AppInit

SpecService == Init /\ [][SvcNext]_vars

(***************************************************************************)
(* App: the state of the component and the calls of handleImageChange,     *)
(* each running from one await to the next.                                *)
(***************************************************************************)

\* Most calls of handleImageChange in one run.
MaxInvocations == 2

\* What the model answers to the extraction prompt, or that the call failed.
AppExtractOutcomes ==
    {TextResponse("34+54"), TextResponse("Result: 5/0"),
     TextResponse("ERROR: No expression found"), ClientRejects}

\* What the model answers to the calculation prompt.
AppCalculateOutcomes ==
    {TextResponse("88"), TextResponse("ERROR: Invalid expression"), UndefinedTextResponse}

\* e.message of what fileToBase64 rejects with ("" when it has none).
ReadErrorMessages == {"", "Failed to read file"}

\* reader.result when loading ends: a data URL, or null after a failed read.
ReaderResults == {Str("data:image/png;base64,iVBORw0KGgo="), Null}

\* What the user may type into the textarea.
EditedValues == {"", "3*4"}

\* The promise of extractExpressionFromImage, from either service module.
ExtractionPromises ==
    {extractExpressionFromImage(outcome) : outcome \in AppExtractOutcomes}
        \cup {extractExpressionFromImageLocal(outcome) : outcome \in AppExtractOutcomes}

\* Each string extracted, with the promise of the local calculateExpression
\* for it.
LocalCalculations ==
    {<<promise.value, calculateExpressionLocal(promise.value)>> :
        promise \in ExtractionPromises}

\* The promises of the remote calculateExpression.
RemoteCalculations == {calculateExpression(outcome) : outcome \in AppCalculateOutcomes}

\* The promise of calculateExpression(expr), from either service module.
CalculationPromises(expr) ==
    RemoteCalculations \cup {pair[2] : pair \in {p \in LocalCalculations : p[1] = expr}}

\* A call of handleImageChange that has just started.
NewInvocation ==
    [pc |-> "fileToBase64", loading |-> TRUE, readFailed |-> FALSE,
     extractedExpr |-> Null, calculateArg |-> Null]

\* A variant that never takes an extracted string for an error.
NeverAnError(extractedExpr) == FALSE

\* if (extractedExpr.startsWith("ERROR:")) throw new Error(extractedExpr)
ExtractionFailed(extractedExpr) == startsWith(extractedExpr, "ERROR:")

\* The catch block of call i, for an error with the given message.
Caught(i, message) ==
    /\ error' = Str(IF message = "" THEN "An unexpected error occurred." ELSE message)
    /\ processState' = "error"
    /\ lastWriter' = i

\* The user picks a file: handleImageChange runs up to its first await.  The
\* inputs are rendered only while there is no preview.
Upload ==
    /\ Falsy(imagePreview)
    /\ Len(invocations) < MaxInvocations
    /\ processState' = "processing"
    /\ error' = Null
    /\ expression' = Null
    /\ result' = Null
    /\ invocations' = Append(invocations, NewInvocation)
    /\ lastWriter' = Len(invocations) + 1
    /\ UNCHANGED <<imagePreview, svcVars>>

\* reader.onloadend of call i.
LoadEnd(i) ==
    /\ invocations[i].loading
    /\ imagePreview' \in ReaderResults
    /\ invocations' = [invocations EXCEPT ![i].loading = FALSE]
    /\ UNCHANGED <<expression, result, error, processState, lastWriter, svcVars>>

\* fileToBase64(file) resolves and call i goes on to call the extractor.
FileRead(i) ==
    /\ invocations[i].pc = "fileToBase64"
    /\ invocations' = [invocations EXCEPT ![i].pc = "extract"]
    /\ UNCHANGED <<imagePreview, expression, result, error, processState, lastWriter,
                   svcVars>>

\* fileToBase64(file) rejects and call i ends in its catch block.
FileReadFails(i) ==
    /\ invocations[i].pc = "fileToBase64"
    /\ \E message \in ReadErrorMessages : Caught(i, message)
    /\ invocations' = [invocations EXCEPT ![i].pc = "done", ![i].readFailed = TRUE]
    /\ UNCHANGED <<imagePreview, expression, result, svcVars>>

\* extractExpressionFromImage resolves: call i either throws the extracted
\* error, or sets the expression and calls calculateExpression with it.
ExtractSettles(i) ==
    /\ invocations[i].pc = "extract"
    /\ \E promise \in ExtractionPromises :
          IF promise.state = "rejected"
          THEN /\ Caught(i, "")
               /\ invocations' = [invocations EXCEPT ![i].pc = "done"]
               /\ UNCHANGED expression
          ELSE IF ExtractionFailed(promise.value)
          THEN /\ Caught(i, promise.value)
               /\ invocations' = [invocations EXCEPT ![i].pc = "done",
                                                     ![i].extractedExpr = Str(promise.value)]
               /\ UNCHANGED expression
          ELSE /\ expression' = Str(promise.value)
               /\ lastWriter' = i
               /\ invocations' = [invocations EXCEPT ![i].pc = "calculate",
                                                     ![i].extractedExpr = Str(promise.value),
                                                     ![i].calculateArg = Str(promise.value)]
               /\ UNCHANGED <<error, processState>>
    /\ UNCHANGED <<imagePreview, result, svcVars>>

\* calculateExpression resolves: call i either throws the error, or sets the
\* result and succeeds.
CalculateSettles(i) ==
    /\ invocations[i].pc = "calculate"
    /\ \E promise \in CalculationPromises(invocations[i].calculateArg[1]) :
          IF promise.state = "rejected"
          THEN Caught(i, "") /\ UNCHANGED result
          ELSE IF startsWith(promise.value, "ERROR:")
          THEN Caught(i, promise.value) /\ UNCHANGED result
          ELSE /\ result' = Str(promise.value)
               /\ processState' = "success"
               /\ lastWriter' = i
               /\ UNCHANGED error
    /\ invocations' = [invocations EXCEPT ![i].pc = "done"]
    /\ UNCHANGED <<imagePreview, expression, svcVars>>

\* The user clicks "Calculate Another", which is rendered with the preview.
resetState ==
    /\ ~Falsy(imagePreview)
    /\ imagePreview' = Null
    /\ expression' = Null
    /\ result' = Null
    /\ error' = Null
    /\ processState' = "idle"
    /\ lastWriter' = 0
    /\ UNCHANGED <<invocations, svcVars>>

\* The user edits the textarea, which is rendered with the preview, for a
\* truthy expression, on success or on error.
EditExpression ==
    /\ ~Falsy(imagePreview)
    /\ processState \in {"success", "error"}
    /\ ~Falsy(expression)
    /\ \E value \in EditedValues : expression' = Str(value)
    /\ lastWriter' = 0
    /\ UNCHANGED <<imagePreview, result, error, processState, invocations, svcVars>>

Next ==
    \/ Upload
    \/ \E i \in 1..Len(invocations) : LoadEnd(i)
    \/ \E i \in 1..Len(invocations) : FileRead(i)
    \/ \E i \in 1..Len(invocations) : FileReadFails(i)
    \/ \E i \in 1..Len(invocations) : ExtractSettles(i)
    \/ \E i \in 1..Len(invocations) : CalculateSettles(i)
    \/ resetState
    \/ EditExpression

Spec == Init /\ [][Next]_vars

(***************************************************************************)
(* Properties of App.                                                      *)
(***************************************************************************)

\* C2: expression, result, error and processState are never written by a
\* call of handleImageChange other than the one started last: the results of
\* a call that a newer upload has overtaken are discarded.
OnlyLatestInvocationWrites == lastWriter \in {0, Len(invocations)}

\* The first call finished with success while the second was still running.
OvertakenCallShowsItsResult ==
    /\ Len(invocations) = 2
    /\ invocations[2].pc # "done"
    /\ lastWriter = 1
    /\ processState = "success"

\* C3: within one call of handleImageChange, calculateExpression is called
\* only once extractExpressionFromImage has resolved with a string that does
\* not start with ERROR:, and with exactly that string; when the extraction
\* resolves with an ERROR: string, or reading the file fails, it is not called.
CalculateOnlyAfterExtraction ==
    \A i \in 1..Len(invocations) :
        /\ invocations[i].calculateArg # Null
              => /\ invocations[i].extractedExpr # Null
                 /\ ~startsWith(invocations[i].extractedExpr[1], "ERROR:")
                 /\ invocations[i].calculateArg = invocations[i].extractedExpr
        /\ invocations[i].readFailed => invocations[i].calculateArg = Null
        /\ (/\ invocations[i].extractedExpr # Null
            /\ startsWith(invocations[i].extractedExpr[1], "ERROR:"))
              => invocations[i].calculateArg = Null

\* One call ended on an extracted ERROR: string without calculating, another
\* calculated what it had extracted.
ExtractionErrorSkipsCalculation ==
    \E i, j \in 1..Len(invocations) :
        /\ invocations[i].pc = "done"
        /\ invocations[i].extractedExpr # Null
        /\ startsWith(invocations[i].extractedExpr[1], "ERROR:")
        /\ invocations[i].calculateArg = Null
        /\ invocations[j].pc = "done"
        /\ invocations[j].calculateArg # Null

\* C9: processState changes only from idle to processing, from processing to
\* success or to error, and from any state to idle.
AllowedTransition ==
    \/ processState' = processState
    \/ processState = "idle" /\ processState' = "processing"
    \/ processState = "processing" /\ processState' \in {"success", "error"}
    \/ processState' = "idle"

ProcessStateTransitions == [][AllowedTransition]_vars

\* The state is idle again after a reset while the call is still waiting for
\* calculateExpression, whose result will take it out of idle.
IdleWithCallInFlight ==
    /\ Len(invocations) = 1
    /\ invocations[1].pc = "calculate"
    /\ processState = "idle"

\* C10: success implies a result, an expression and no error; error implies
\* an error and no result; idle implies no expression, no result and no error.
StateShape ==
    /\ processState = "success" => result # Null /\ expression # Null /\ error = Null
    /\ processState = "error" => error # Null /\ result = Null
    /\ processState = "idle" => expression = Null /\ result = Null /\ error = Null

\* A call that was reset away set the expression of the idle component.
ExpressionWhileIdle ==
    /\ processState = "idle"
    /\ expression # Null
    /\ lastWriter = 1


(***************************************************************************)
(* Properties of the service functions.                                    *)
(***************************************************************************)

AllowedCharacters == Digits \cup Operators \cup {".", "(", ")"} \cup WhiteSpace

IsErrorString(s) == startsWith(s, "ERROR:")

ParsesAsFiniteNumber(s) == s # "" /\ ParseFloatIsNumber(s) /\ NumberIsFinite(s)

HasInvalidCharacter(s) == \E i \in 1..Len(s) : CharAt(s, i) \notin AllowedCharacters

HasAdjacentOperators(s) ==
    \E i \in 1..(Len(s) - 1) : CharAt(s, i) \in Operators /\ CharAt(s, i + 1) \in Operators

\* Opening minus closing parentheses among the first i characters of s.
ParenDepth(s, i) ==
    Cardinality({j \in 1..i : CharAt(s, j) = "("})
        - Cardinality({j \in 1..i : CharAt(s, j) = ")"})

UnbalancedParentheses(s) ==
    ParenDepth(s, Len(s)) # 0 \/ \E i \in 1..Len(s) : ParenDepth(s, i) < 0

EmptyParentheses(s) ==
    \E i \in 1..Len(s) : \E j \in (i + 1)..Len(s) :
        /\ CharAt(s, i) = "("
        /\ CharAt(s, j) = ")"
        /\ \A k \in (i + 1)..(j - 1) : CharAt(s, k) \in WhiteSpace

MissingOperand(s) ==
    /\ trim(s) # ""
    /\ \/ CharAt(trim(s), Len(trim(s))) \in Operators
       \/ CharAt(trim(s), 1) \in {"*", "/"}

Malformed(s) ==
    \/ OnlyCharsIn(s, WhiteSpace)
    \/ UnbalancedParentheses(s)
    \/ EmptyParentheses(s)
    \/ MissingOperand(s)

NonFinite(run) == ~run.threw /\ run.value.t \in {"infinity", "NaN"}

\* C1: every call of the four service functions settles by fulfilling its
\* promise with a string, never by rejecting, whatever the model client did
\* and whatever the input was; and a string that is not a successful
\* expression or numeric result begins with ERROR:.
ServiceFunctionsAreTotal ==
    svcPhase = "settled" =>
        /\ svcPromise.state = "fulfilled"
        /\ \/ IsErrorString(svcPromise.value)
           \/ /\ svcFn \in {"extract", "extractLocal"}
              /\ LooksLikeExpression(svcPromise.value)
           \/ /\ svcFn \in {"calculate", "calculateLocal"}
              /\ ParsesAsFiniteNumber(svcPromise.value)

\* The model client rejected and the extractor returned an ERROR: string.
RejectionBecameErrorString ==
    /\ svcPhase = "settled"
    /\ svcFn = "extract"
    /\ svcOutcome = ClientRejects
    /\ svcPromise = Fulfilled("ERROR: Failed to communicate with the AI model for extraction.")

\* C4: a string extractExpressionFromImage returns that does not start with
\* ERROR: holds only digits, . + - * / ( ) and whitespace, and stripping the
\* other characters from it again gives the same string.
ExtractedExpressionIsSanitized ==
    (/\ svcPhase = "settled"
     /\ svcFn \in {"extract", "extractLocal"}
     /\ svcPromise.state = "fulfilled"
     /\ ~IsErrorString(svcPromise.value))
    => /\ OnlyCharsIn(svcPromise.value, AllowedCharacters)
       /\ svcFn = "extract" => SanitizeKeepingSpace(svcPromise.value) = svcPromise.value
       /\ svcFn = "extractLocal" => Sanitize(svcPromise.value) = svcPromise.value

\* The model's text held characters that the extractor stripped.
StrippedResponseReturned ==
    /\ svcPhase = "settled"
    /\ svcFn = "extract"
    /\ svcOutcome.kind = "text"
    /\ HasInvalidCharacter(svcOutcome.text)
    /\ ~IsErrorString(svcPromise.value)
    /\ svcPromise.value # trim(svcOutcome.text)

\* C5: when the trimmed text of the model's response does not hold both a
\* digit and an operator character, extractExpressionFromImage returns that
\* text unchanged if it starts with ERROR:, and otherwise exactly
\* "ERROR: Could not recognize a valid expression in the image."
ValidationPolicy ==
    (/\ svcPhase = "settled"
     /\ svcFn \in {"extract", "extractLocal"}
     /\ svcOutcome.kind = "text"
     /\ ~(HasCharIn(trim(svcOutcome.text), Digits)
            /\ HasCharIn(trim(svcOutcome.text), Operators)))
    => svcPromise =
          Fulfilled(IF IsErrorString(trim(svcOutcome.text))
                    THEN trim(svcOutcome.text)
                    ELSE "ERROR: Could not recognize a valid expression in the image.")

\* The error string of the prompt comes back from the local variant changed.
ErrorReplyRewritten ==
    /\ svcPhase = "settled"
    /\ svcFn = "extractLocal"
    /\ svcOutcome = TextResponse("ERROR: No expression found")
    /\ svcPromise = Fulfilled("ERROR:Nofound")

\* C6: the local calculateExpression answers an input with a character outside
\* the allowed set with "ERROR: Expression contains invalid characters.", an
\* input that passes that check and has two operator characters next to each
\* other with "ERROR: Invalid operator sequence.", and evaluates neither.
PreChecksRejectInOrder ==
    (svcPhase = "settled" /\ svcFn = "calculateLocal")
    => /\ HasInvalidCharacter(svcInput)
            => /\ svcPromise = Fulfilled("ERROR: Expression contains invalid characters.")
               /\ ~svcEvaluated
       /\ (~HasInvalidCharacter(svcInput) /\ HasAdjacentOperators(svcInput))
            => /\ svcPromise = Fulfilled("ERROR: Invalid operator sequence.")
               /\ ~svcEvaluated

\* 3+-4 was rejected for its operator sequence, without being evaluated.
OperatorSequenceRejected ==
    /\ svcPhase = "settled"
    /\ svcFn = "calculateLocal"
    /\ svcInput = "3+-4"
    /\ svcPromise = Fulfilled("ERROR: Invalid operator sequence.")
    /\ ~svcEvaluated

\* C7: for an input that passes both pre-checks, the local calculateExpression
\* returns "ERROR: Calculation resulted in an invalid number." when the
\* evaluation yields a non-finite value, and
\* "ERROR: Invalid or unrecognized mathematical expression." when the input is
\* a malformed arithmetic expression (empty or whitespace-only, unbalanced or
\* empty parentheses, a missing operand).
EvaluationErrorMessages ==
    (/\ svcPhase = "settled"
     /\ svcFn = "calculateLocal"
     /\ ~HasInvalidCharacter(svcInput)
     /\ ~HasAdjacentOperators(svcInput))
    => /\ NonFinite(RunFunction(svcInput))
            => svcPromise = Fulfilled("ERROR: Calculation resulted in an invalid number.")
       /\ Malformed(svcInput)
            => svcPromise =
                  Fulfilled("ERROR: Invalid or unrecognized mathematical expression.")

\* The empty expression is answered with the message of a non-finite result.
EmptyExpressionMessage ==
    /\ svcPhase = "settled"
    /\ svcFn = "calculateLocal"
    /\ svcInput = ""
    /\ svcEvaluated
    /\ svcPromise = Fulfilled("ERROR: Calculation resulted in an invalid number.")

\* C8: for an input made only of allowed characters the local
\* calculateExpression returns a non-empty string that parses as a finite
\* number or a string starting with ERROR:, never an empty string, undefined,
\* NaN or Infinity.
LocalResultIsNumberOrError ==
    (/\ svcPhase = "settled"
     /\ svcFn = "calculateLocal"
     /\ ~HasInvalidCharacter(svcInput))
    => /\ svcPromise.state = "fulfilled"
       /\ svcPromise.value # ""
       /\ svcPromise.value \notin {"undefined", "NaN", "Infinity", "-Infinity"}
       /\ IsErrorString(svcPromise.value) \/ ParsesAsFiniteNumber(svcPromise.value)

\* A division by zero was evaluated and answered with an ERROR: string.
DivisionByZeroIsError ==
    /\ svcPhase = "settled"
    /\ svcFn = "calculateLocal"
    /\ svcInput = "5/0"
    /\ svcEvaluated
    /\ IsErrorString(svcPromise.value)

=============================================================================
